---- MODULE Spec2Model ----
(***************************************************************************)
(* WaveView (src/app.py): the conditions fetcher with its synthetic        *)
(* fallback, the quality scorer, the rankings builder with its exchange    *)
(* sort, the narrative reporter and the HTTP handlers that call them.      *)
(*                                                                         *)
(* Numbers are fixed-point: a float x of the program is the integer 10*x   *)
(* (3.0 ft is 30, 0.5 ft is 5).  Every threshold of the program is a       *)
(* multiple of 0.1, so the comparisons are the program's.                  *)
(*                                                                         *)
(* A Python value is a record [t, n, s]: a number, a string or None.  A    *)
(* call that may raise returns [raised, value].                            *)
(***************************************************************************)
EXTENDS Integers, Sequences, FiniteSets, TLC

VARIABLES
    op,           \* the handler that ran last, "idle" while waiting for a request
    location_id,  \* the {location_id} path parameter of the request
    response,     \* what requests.get produced for the request, if it was called
    requests,     \* how many times requests.get was called while handling it
    draw,         \* the values the random module produced, if it was asked
    surf_data,    \* the dict returned by get_surf_data_from_api / given to the scorer
    quality,      \* the outcome of calculate_wave_quality
    gpt,          \* what the chat completion call produced
    report,       \* the dict returned by analyze_surf_conditions_with_gpt
    calls,        \* per location of a rankings request: the fetch and score outcome
    rankings,     \* the list returned by sort_surf_spots_by_conditions
    http_status   \* the status of the HTTP answer

vars == <<op, location_id, response, requests, draw, surf_data, quality, gpt,
          report, calls, rankings, http_status>>

----------------------------------------------------------------------------
(* Python values *)

Num(x) == [t |-> "num", n |-> x, s |-> ""]
Str(x) == [t |-> "str", n |-> 0, s |-> x]
None == [t |-> "null", n |-> 0, s |-> ""]

IsNum(v) == v.t = "num"

Ok(v) == [raised |-> FALSE, value |-> v]
Raise(v) == [raised |-> TRUE, value |-> v]

----------------------------------------------------------------------------
(* Bounds of the model *)

\* how many identifiers outside the registry a request may carry
NumUnknownIds == 1

\* how many metrics of a provider data point may be present at once
MaxPresent == 2

----------------------------------------------------------------------------
(* Location registry *)

LocationKeys == <<"malibu", "pipeline", "teahupoo", "waimea", "jaws">>

SURF_LOCATIONS ==
    [k \in {LocationKeys[i] : i \in 1..Len(LocationKeys)} |->
        CASE k = "malibu"   -> [name |-> "Malibu", lat |-> 340370, lon |-> -1186770]
          [] k = "pipeline" -> [name |-> "Pipeline", lat |-> 216644, lon |-> -1580533]
          [] k = "teahupoo" -> [name |-> "Teahupoo", lat |-> -178444, lon |-> -1492672]
          [] k = "waimea"   -> [name |-> "Waimea Bay", lat |-> 216389, lon |-> -1580667]
          [] k = "jaws"     -> [name |-> "Jaws (Peahi)", lat |-> 209333, lon |-> -1563000]]

UnknownIds == {"spot_" \o ToString(i) : i \in 1..NumUnknownIds}

AllIds == DOMAIN SURF_LOCATIONS \cup UnknownIds

\* datetime.now().isoformat()
isoformat_now == Str("2024-06-01T12:00:00")

NoRecord ==
    [location_name |-> None, wave_height |-> None, wave_period |-> None,
     wave_direction |-> None, wind_speed |-> None, wind_direction |-> None,
     temperature |-> None, swell_height |-> None, swell_period |-> None,
     swell_direction |-> None, tide_height |-> None, timestamp |-> None]

----------------------------------------------------------------------------
(* The marine-data provider: what requests.get can produce *)

Metrics == {"waveHeight", "wavePeriod", "waveDirection", "windSpeed",
            "windDirection", "airTemperature"}

\* One metric of a data point: the key is absent, its value is not an object,
\* it is an object without the "noaa" source, or an object with it.
Absent == [e |-> "absent", v |-> None]
NotObject == [e |-> "notobject", v |-> None]
NoNoaa == [e |-> "nonoaa", v |-> None]
Noaa(v) == [e |-> "noaa", v |-> v]

NoaaValues == {None, Num(-10), Num(120)}

Entries == {Absent, NotObject, NoNoaa} \cup {Noaa(v) : v \in NoaaValues}

EmptyPoint == [m \in Metrics |-> Absent]

Points ==
    {p \in [Metrics -> Entries] :
        Cardinality({m \in Metrics : p[m] # Absent}) <= MaxPresent}

\* The body of an answer: not JSON; JSON without a usable "data" member;
\* an empty "data"; a first data point that is not an object; a data point.
Body(j, p) == [json |-> j, point |-> p]

Bodies ==
    {Body(j, EmptyPoint) : j \in {"unparseable", "nodata", "empty", "baditem"}}
    \cup {Body("point", p) : p \in Points}

NetworkError == [kind |-> "exception", status |-> 0, body |-> Body("unparseable", EmptyPoint)]
Http(st, b) == [kind |-> "http", status |-> st, body |-> b]
NoResponse == [kind |-> "none", status |-> 0, body |-> Body("unparseable", EmptyPoint)]

Responses ==
    {NetworkError}
    \cup {Http(st, Body("unparseable", EmptyPoint)) : st \in {401, 503}}
    \cup {Http(200, b) : b \in Bodies}

----------------------------------------------------------------------------
(* Synthetic conditions generator *)

\* The values random.uniform (after round) and random.choice can give; the
\* ends of each range stand for the range.
Draws ==
    [wave_height : {20, 120}, wave_period : {80, 180}, wave_direction : {"SW"},
     wind_speed : {50, 250}, wind_direction : {"N"}, temperature : {150, 300},
     swell_direction : {"S"}, tide_height : {-5, 25}]

NoDraw ==
    [wave_height |-> 0, wave_period |-> 0, wave_direction |-> "",
     wind_speed |-> 0, wind_direction |-> "", temperature |-> 0,
     swell_direction |-> "", tide_height |-> 0]

\* the generator with the temperature range starting below zero
generate_mock_surf_data_cold(location, d) ==
    [location_name |-> Str(location.name),
     wave_height |-> Num(d.wave_height),
     wave_period |-> Num(d.wave_period),
     wave_direction |-> Str(d.wave_direction),
     wind_speed |-> Num(d.wind_speed),
     wind_direction |-> Str(d.wind_direction),
     temperature |-> Num(d.temperature - 300),
     swell_height |-> Num(d.wave_height),
     swell_period |-> Num(d.wave_period),
     swell_direction |-> Str(d.swell_direction),
     tide_height |-> Num(d.tide_height),
     timestamp |-> isoformat_now]

generate_mock_surf_data(location, d) ==
    [location_name |-> Str(location.name),
     wave_height |-> Num(d.wave_height),
     wave_period |-> Num(d.wave_period),
     wave_direction |-> Str(d.wave_direction),
     wind_speed |-> Num(d.wind_speed),
     wind_direction |-> Str(d.wind_direction),
     temperature |-> Num(d.temperature),
     swell_height |-> Num(d.wave_height),
     swell_period |-> Num(d.wave_period),
     swell_direction |-> Str(d.swell_direction),
     tide_height |-> Num(d.tide_height),
     timestamp |-> isoformat_now]

----------------------------------------------------------------------------
(* Conditions fetcher *)

NoLocation == [name |-> "", lat |-> 0, lon |-> 0]

\* the lookup with the default location given to .get
Lookup_default(id) ==
    IF id \in DOMAIN SURF_LOCATIONS
    THEN [found |-> TRUE, location |-> SURF_LOCATIONS[id]]
    ELSE [found |-> TRUE, location |-> SURF_LOCATIONS["malibu"]]

\* SURF_LOCATIONS.get(location_id): None for an identifier that is no key
Lookup(id) ==
    IF id \in DOMAIN SURF_LOCATIONS
    THEN [found |-> TRUE, location |-> SURF_LOCATIONS[id]]
    ELSE [found |-> FALSE, location |-> NoLocation]

\* the except clause always taking the default location
FallbackLocation_malibu(id) == SURF_LOCATIONS["malibu"]

\* SURF_LOCATIONS.get(location_id, SURF_LOCATIONS['malibu'])
FallbackLocation(id) ==
    IF id \in DOMAIN SURF_LOCATIONS THEN SURF_LOCATIONS[id] ELSE SURF_LOCATIONS["malibu"]

\* data = response.json(); current = data['data'][0] if data['data'] else {}
CurrentPoint(body) ==
    CASE body.json = "unparseable" -> Raise(EmptyPoint)
      [] body.json = "nodata"      -> Raise(EmptyPoint)
      [] body.json = "empty"       -> Ok(EmptyPoint)
      [] body.json = "baditem"     -> Ok(EmptyPoint)
      [] OTHER                     -> Ok(body.point)

\* current.get(key, {}).get('noaa', default); .get on anything but an object raises
Extract(body, key, default) ==
    IF body.json = "baditem" THEN Raise(None)
    ELSE LET e == body.point[key] IN
         CASE e.e = "absent"    -> Ok(default)
           [] e.e = "notobject" -> Raise(None)
           [] e.e = "nonoaa"    -> Ok(default)
           [] OTHER             -> Ok(e.v)

\* the status-200 dict with the swell read from metrics of its own, which
\* the request never asks for
ProviderRecord_swell(location, body) ==
    LET wh == Extract(body, "waveHeight", Num(30))
        wp == Extract(body, "wavePeriod", Num(100))
        wd == Extract(body, "waveDirection", Str("SW"))
        ws == Extract(body, "windSpeed", Num(100))
        wi == Extract(body, "windDirection", Str("NW"))
        te == Extract(body, "airTemperature", Num(200))
    IN  IF \E x \in {wh, wp, wd, ws, wi, te} : x.raised
        THEN Raise(NoRecord)
        ELSE Ok([location_name |-> Str(location.name),
                 wave_height |-> wh.value,
                 wave_period |-> wp.value,
                 wave_direction |-> wd.value,
                 wind_speed |-> ws.value,
                 wind_direction |-> wi.value,
                 temperature |-> te.value,
                 swell_height |-> Num(30),
                 swell_period |-> Num(100),
                 swell_direction |-> Str("SW"),
                 tide_height |-> Num(5),
                 timestamp |-> isoformat_now])

\* the dict built on the status-200 path
ProviderRecord(location, body) ==
    LET wh == Extract(body, "waveHeight", Num(30))
        wp == Extract(body, "wavePeriod", Num(100))
        wd == Extract(body, "waveDirection", Str("SW"))
        ws == Extract(body, "windSpeed", Num(100))
        wi == Extract(body, "windDirection", Str("NW"))
        te == Extract(body, "airTemperature", Num(200))
        sh == Extract(body, "waveHeight", Num(30))
        sp == Extract(body, "wavePeriod", Num(100))
        sd == Extract(body, "waveDirection", Str("SW"))
    IN  IF \E x \in {wh, wp, wd, ws, wi, te, sh, sp, sd} : x.raised
        THEN Raise(NoRecord)
        ELSE Ok([location_name |-> Str(location.name),
                 wave_height |-> wh.value,
                 wave_period |-> wp.value,
                 wave_direction |-> wd.value,
                 wind_speed |-> ws.value,
                 wind_direction |-> wi.value,
                 temperature |-> te.value,
                 swell_height |-> sh.value,
                 swell_period |-> sp.value,
                 swell_direction |-> sd.value,
                 tide_height |-> Num(5),
                 timestamp |-> isoformat_now])

Outcome(r, v, n, m) == [raised |-> r, value |-> v, requests |-> n, mock |-> m]

\* from requests.get to the end of the try block
Request(location, resp, d) ==
    IF resp.kind = "exception" THEN Outcome(TRUE, NoRecord, 1, FALSE)
    ELSE IF resp.status = 200
         THEN IF CurrentPoint(resp.body).raised
              THEN Outcome(TRUE, NoRecord, 1, FALSE)
              ELSE LET rec == ProviderRecord(location, resp.body)
                   IN  Outcome(rec.raised, rec.value, 1, FALSE)
         ELSE Outcome(FALSE, generate_mock_surf_data(location, d), 1, TRUE)

\* the try block: the lookup, its ValueError, then the request
TryBlock(id, resp, d) ==
    LET l == Lookup(id)
    IN  IF ~l.found THEN Outcome(TRUE, NoRecord, 0, FALSE)
        ELSE Request(l.location, resp, d)

\* the except clause: print, then the generator on the fallback location
ExceptClause(id, t, d) ==
    Outcome(FALSE, generate_mock_surf_data(FallbackLocation(id), d), t.requests, TRUE)

get_surf_data_from_api(id, resp, d) ==
    LET t == TryBlock(id, resp, d)
    IN  IF t.raised THEN ExceptClause(id, t, d) ELSE t

----------------------------------------------------------------------------
(* Quality scorer *)

\* the wave height buckets with the bounds of the best one excluded
WaveHeightPoints_strict(h) ==
    IF 30 < h /\ h < 80 THEN 30
    ELSE IF 20 <= h /\ h <= 100 THEN 20
    ELSE 10

WaveHeightPoints(h) ==
    IF 30 <= h /\ h <= 80 THEN 30
    ELSE IF 20 <= h /\ h <= 100 THEN 20
    ELSE 10

WavePeriodPoints(p) ==
    IF 100 <= p /\ p <= 160 THEN 25
    ELSE IF 80 <= p /\ p <= 180 THEN 15
    ELSE 5

WindPoints(w) ==
    IF w <= 100 THEN 25
    ELSE IF w <= 150 THEN 15
    ELSE 5

SwellPoints(sh, sp) ==
    IF sh >= 30 /\ sp >= 100 THEN 20 ELSE 10

Min(a, b) == IF a <= b THEN a ELSE b

\* the sum started at 10.0 and returned without the cap
CappedSum_uncapped(sd) ==
    10 + WaveHeightPoints(sd.wave_height.n) + WavePeriodPoints(sd.wave_period.n)
       + WindPoints(sd.wind_speed.n)
       + SwellPoints(sd.swell_height.n, sd.swell_period.n)

\* score = 0.0, the four factors added, min(score, 100.0)
CappedSum(sd) ==
    Min(0 + WaveHeightPoints(sd.wave_height.n) + WavePeriodPoints(sd.wave_period.n)
          + WindPoints(sd.wind_speed.n)
          + SwellPoints(sd.swell_height.n, sd.swell_period.n),
        100)

\* A comparison of a float with None or a string raises TypeError.  The
\* swell period is compared only when the swell height passed its test.
ComparisonRaises(sd) ==
    \/ ~IsNum(sd.wave_height)
    \/ ~IsNum(sd.wave_period)
    \/ ~IsNum(sd.wind_speed)
    \/ ~IsNum(sd.swell_height)
    \/ (sd.swell_height.n >= 30 /\ ~IsNum(sd.swell_period))

calculate_wave_quality(sd) ==
    IF ComparisonRaises(sd) THEN Raise(0) ELSE Ok(CappedSum(sd))

----------------------------------------------------------------------------
(* Rankings builder *)

Entry(id, sd, score) ==
    [location_id |-> id,
     location_name |-> sd.location_name,
     wave_height |-> sd.wave_height,
     quality_score |-> score,
     surf_data |-> sd]

\* a turn of the loop that appends the location with a score of 0 when the
\* fetch or the scorer raised
Visit_zero(spots, id, resp, d) ==
    LET f == get_surf_data_from_api(id, resp, d)
        q == calculate_wave_quality(f.value)
    IN  IF f.raised \/ q.raised THEN Append(spots, Entry(id, f.value, 0))
        ELSE Append(spots, Entry(id, f.value, q.value))

\* one turn of the for loop over SURF_LOCATIONS.keys(): try, append, except
Visit(spots, id, resp, d) ==
    LET f == get_surf_data_from_api(id, resp, d)
        q == calculate_wave_quality(f.value)
    IN  IF f.raised \/ q.raised THEN spots
        ELSE Append(spots, Entry(id, f.value, q.value))

RECURSIVE Collect(_, _, _, _)
Collect(spots, i, rs, ds) ==
    IF i > Len(LocationKeys) THEN spots
    ELSE Collect(Visit(spots, LocationKeys[i], rs[i], ds[i]), i + 1, rs, ds)

\* what the loop met at each location
CallLog(rs, ds) ==
    [i \in 1..Len(LocationKeys) |->
        LET f == get_surf_data_from_api(LocationKeys[i], rs[i], ds[i])
        IN  [location_id |-> LocationKeys[i],
             surf_data |-> f.value,
             failed |-> f.raised \/ calculate_wave_quality(f.value).raised]]

\* the exchange test with <= in place of <
ShouldSwap_le(a, b) == a.quality_score <= b.quality_score

\* if spots_data[j]['quality_score'] < spots_data[j + 1]['quality_score']
ShouldSwap(a, b) == a.quality_score < b.quality_score

Swap(spots, j) ==
    [spots EXCEPT ![j] = spots[j + 1], ![j + 1] = spots[j]]

\* for j in range(0, stop); j counts from 0, sequences from 1
RECURSIVE InnerLoop(_, _, _)
InnerLoop(spots, j, stop) ==
    IF j >= stop THEN spots
    ELSE InnerLoop(IF ShouldSwap(spots[j + 1], spots[j + 2])
                   THEN Swap(spots, j + 1) ELSE spots,
                   j + 1, stop)

\* for i in range(n)
RECURSIVE OuterLoop(_, _, _)
OuterLoop(spots, i, n) ==
    IF i >= n THEN spots
    ELSE OuterLoop(InnerLoop(spots, 0, n - i - 1), i + 1, n)

BubbleSort(spots) == OuterLoop(spots, 0, Len(spots))

sort_surf_spots_by_conditions(rs, ds) == BubbleSort(Collect(<<>>, 1, rs, ds))

----------------------------------------------------------------------------
(* Narrative reporter *)

GptFailures == {"auth", "network", "quota", "malformed"}
GptOutcomes == {"ok"} \cup GptFailures

NoReport == [analysis |-> None, surf_data |-> NoRecord, timestamp |-> None]

\* client.chat.completions.create(...) and response.choices[0].message.content
ChatCompletion(g) ==
    IF g = "ok" THEN Ok(Str("**WAVE VISUALIZATION:** ... **SURF ANALYSIS:** ..."))
    ELSE Raise(Str(g))

\* the reporter letting the exception of the call through
ReportFailure_reraise(sd, e) == Raise(NoReport)

\* the except clause of the reporter
ReportFailure(sd, e) ==
    Ok([analysis |-> Str("Error analyzing conditions: " \o e.s),
        surf_data |-> sd,
        timestamp |-> isoformat_now])

analyze_surf_conditions_with_gpt(sd, g) ==
    LET c == ChatCompletion(g)
    IN  IF c.raised THEN ReportFailure(sd, c.value)
        ELSE Ok([analysis |-> c.value, surf_data |-> sd, timestamp |-> isoformat_now])

----------------------------------------------------------------------------
(* Inputs of the requests *)

LowDraw ==
    [wave_height |-> 20, wave_period |-> 80, wave_direction |-> "SW",
     wind_speed |-> 50, wind_direction |-> "N", temperature |-> 150,
     swell_direction |-> "S", tide_height |-> -5]

HighDraw ==
    [wave_height |-> 120, wave_period |-> 180, wave_direction |-> "SW",
     wind_speed |-> 250, wind_direction |-> "N", temperature |-> 300,
     swell_direction |-> "S", tide_height |-> 25]

SmallDraws == {LowDraw, HighDraw}

\* a 503, an empty data array, a null wave height, a wave height of 12.0,
\* a wind speed of 12.0: with the two draws the scores 70, 50, 100, none,
\* 80 and 90
SmallResponses ==
    {Http(503, Body("unparseable", EmptyPoint)),
     Http(200, Body("empty", EmptyPoint)),
     Http(200, Body("point", [EmptyPoint EXCEPT !["waveHeight"] = Noaa(None)])),
     Http(200, Body("point", [EmptyPoint EXCEPT !["waveHeight"] = Noaa(Num(120))])),
     Http(200, Body("point", [EmptyPoint EXCEPT !["windSpeed"] = Noaa(Num(120))]))}

ScoreHeights == {-10, 10, 19, 20, 29, 30, 50, 80, 81, 100, 101, 1000000}
ScorePeriods == {-10, 79, 80, 99, 100, 120, 160, 161, 180, 181, 200, 1000000}
ScoreWinds == {-10, 80, 100, 101, 150, 151, 300, 1000000}
ScoreSwellHeights == {-10, 10, 29, 30, 40, 1000000}
ScoreSwellPeriods == {-10, 50, 99, 100, 110, 1000000}

ScoreInput(h, p, w, sh, sp) ==
    [generate_mock_surf_data(SURF_LOCATIONS["malibu"], LowDraw) EXCEPT
        !.wave_height = Num(h), !.wave_period = Num(p), !.wind_speed = Num(w),
        !.swell_height = Num(sh), !.swell_period = Num(sp)]

----------------------------------------------------------------------------
(* The handlers *)

NoQuality == Raise(0)

Init ==
    /\ op = "idle"
    /\ location_id = ""
    /\ response = NoResponse
    /\ requests = 0
    /\ draw = NoDraw
    /\ surf_data = NoRecord
    /\ quality = NoQuality
    /\ gpt = ""
    /\ report = NoReport
    /\ calls = <<>>
    /\ rankings = <<>>
    /\ http_status = 0

\* GET /api/surf-data/{location_id}
get_surf_data ==
    /\ op = "idle"
    /\ \E id \in AllIds, resp \in Responses, d \in Draws :
         LET r == get_surf_data_from_api(id, resp, d)
         IN  /\ op' = "surf_data"
             /\ location_id' = id
             /\ response' = IF r.requests > 0 THEN resp ELSE NoResponse
             /\ requests' = r.requests
             /\ draw' = IF r.mock THEN d ELSE NoDraw
             /\ surf_data' = r.value
             /\ http_status' = IF r.raised THEN 500 ELSE 200
    /\ UNCHANGED <<quality, gpt, report, calls, rankings>>

\* GET /api/analysis/{location_id}
get_surf_analysis ==
    /\ op = "idle"
    /\ \E id \in AllIds, resp \in SmallResponses, d \in SmallDraws, g \in GptOutcomes :
         LET r == get_surf_data_from_api(id, resp, d)
             a == analyze_surf_conditions_with_gpt(r.value, g)
         IN  /\ op' = "analysis"
             /\ location_id' = id
             /\ response' = IF r.requests > 0 THEN resp ELSE NoResponse
             /\ requests' = r.requests
             /\ draw' = IF r.mock THEN d ELSE NoDraw
             /\ surf_data' = r.value
             /\ gpt' = IF r.raised THEN "" ELSE g
             /\ report' = IF r.raised \/ a.raised THEN NoReport ELSE a.value
             /\ http_status' = IF r.raised \/ a.raised THEN 500 ELSE 200
    /\ UNCHANGED <<quality, calls, rankings>>

\* GET /api/rankings
get_surf_rankings ==
    /\ op = "idle"
    /\ \E rs \in [1..Len(LocationKeys) -> SmallResponses],
          ds \in [1..Len(LocationKeys) -> SmallDraws] :
         /\ op' = "rankings"
         /\ calls' = CallLog(rs, ds)
         /\ rankings' = sort_surf_spots_by_conditions(rs, ds)
         /\ http_status' = 200
    /\ UNCHANGED <<location_id, response, requests, draw, surf_data, quality, gpt, report>>

\* a call of the scorer on a record of numbers
score ==
    /\ op = "idle"
    /\ \E h \in ScoreHeights, p \in ScorePeriods, w \in ScoreWinds,
          sh \in ScoreSwellHeights, sp \in ScoreSwellPeriods :
         /\ op' = "score"
         /\ surf_data' = ScoreInput(h, p, w, sh, sp)
         /\ quality' = calculate_wave_quality(ScoreInput(h, p, w, sh, sp))
    /\ UNCHANGED <<location_id, response, requests, draw, gpt, report, calls, rankings,
                   http_status>>

\* the answer is sent; the server waits for the next request
Respond ==
    /\ op # "idle"
    /\ op' = "idle"
    /\ location_id' = ""
    /\ response' = NoResponse
    /\ requests' = 0
    /\ draw' = NoDraw
    /\ surf_data' = NoRecord
    /\ quality' = NoQuality
    /\ gpt' = ""
    /\ report' = NoReport
    /\ calls' = <<>>
    /\ rankings' = <<>>
    /\ http_status' = 0

Next ==
    \/ get_surf_data
    \/ get_surf_analysis
    \/ get_surf_rankings
    \/ score
    \/ Respond

Spec == Init /\ [][Next]_vars

----------------------------------------------------------------------------
(* Properties *)

\* a request whose handler called the conditions fetcher once has been served
Fetched == op \in {"surf_data", "analysis"}

\* the record was produced by the generator for the location l
SyntheticFor(l) ==
    /\ draw \in Draws
    /\ surf_data.location_name = Str(l.name)
    /\ surf_data.wave_height = Num(draw.wave_height)
    /\ surf_data.wave_period = Num(draw.wave_period)
    /\ surf_data.wind_speed = Num(draw.wind_speed)
    /\ surf_data.temperature = Num(draw.temperature)
    /\ surf_data.tide_height = Num(draw.tide_height)

\* the place of a location in the iteration order of the registry
FetchPosition(id) == CHOOSE i \in 1..Len(LocationKeys) : LocationKeys[i] = id

\* C1: the rankings are ordered by non-increasing quality_score, and entries
\* of equal quality_score stand in the order their locations were fetched in.
C1_SortedDescendingStable ==
    op = "rankings" =>
        /\ \A i \in 1..(Len(rankings) - 1) :
             rankings[i].quality_score >= rankings[i + 1].quality_score
        /\ \A i, j \in 1..Len(rankings) :
             (i < j /\ rankings[i].quality_score = rankings[j].quality_score)
                => FetchPosition(rankings[i].location_id)
                     < FetchPosition(rankings[j].location_id)

\* five entries fetched in ascending order of score, two of them tied
C1_Witness ==
    /\ op = "rankings"
    /\ Len(rankings) = 5
    /\ <<rankings[1].location_id, rankings[2].location_id, rankings[3].location_id,
          rankings[4].location_id, rankings[5].location_id>>
         = <<"jaws", "waimea", "pipeline", "teahupoo", "malibu">>
    /\ rankings[3].quality_score = rankings[4].quality_score
    /\ rankings[1].quality_score > rankings[2].quality_score
    /\ rankings[2].quality_score > rankings[3].quality_score
    /\ rankings[4].quality_score > rankings[5].quality_score

\* the rule table of the scorer, bucket by bucket
TableHeight(h) ==
    CASE h \in 30..80 -> 30
      [] h \in (20..29) \cup (81..100) -> 20
      [] OTHER -> 10
TablePeriod(p) ==
    CASE p \in 100..160 -> 25
      [] p \in (80..99) \cup (161..180) -> 15
      [] OTHER -> 5
TableWind(w) ==
    CASE w <= 100 -> 25
      [] w > 100 /\ w <= 150 -> 15
      [] OTHER -> 5
TableSwell(sh, sp) ==
    CASE sh >= 30 /\ sp >= 100 -> 20
      [] OTHER -> 10

IsInput(h, p, w, sh, sp) ==
    /\ surf_data.wave_height = Num(h)
    /\ surf_data.wave_period = Num(p)
    /\ surf_data.wind_speed = Num(w)
    /\ surf_data.swell_height = Num(sh)
    /\ surf_data.swell_period = Num(sp)

\* C2: the score is the sum of the four factor points of the rule table,
\* a value on a bucket's bound taking the bucket's points; (5,12,8,4,11)
\* scores 100 and (1,20,30,1,5) scores 30.
C2_ScoreIsRuleTable ==
    op = "score" =>
        /\ ~quality.raised
        /\ quality.value =
             TableHeight(surf_data.wave_height.n) + TablePeriod(surf_data.wave_period.n)
               + TableWind(surf_data.wind_speed.n)
               + TableSwell(surf_data.swell_height.n, surf_data.swell_period.n)
        /\ IsInput(50, 120, 80, 40, 110) => quality.value = 100
        /\ IsInput(10, 200, 300, 10, 50) => quality.value = 30

\* every field on the bound of its best bucket
C2_Witness ==
    /\ op = "score"
    /\ IsInput(80, 160, 100, 30, 100)
    /\ quality = Ok(100)

\* C3: the scorer returns, and returns a value in 0..100, for every record
\* of numbers, negative and huge ones included.
C3_ScoreInRange ==
    op = "score" =>
        /\ ~quality.raised
        /\ quality.value >= 0
        /\ quality.value <= 100

\* negative and huge values scored
C3_Witness ==
    /\ op = "score"
    /\ IsInput(-10, 1000000, -10, 1000000, -10)
    /\ ~quality.raised

\* the provider call ended otherwise than in a 200 with a payload the
\* extraction can read
ProviderFailed(resp) ==
    \/ resp.kind = "exception"
    \/ /\ resp.kind = "http"
       /\ \/ resp.status # 200
          \/ resp.body.json \in {"unparseable", "nodata", "baditem"}
          \/ /\ resp.body.json = "point"
             /\ \E m \in Metrics : resp.body.point[m] = NotObject

\* C4: for a registered location a failed provider call gives a synthetic
\* record for that location, without raising, after exactly one request.
C4_FailureFallsBackOnce ==
    (Fetched /\ location_id \in DOMAIN SURF_LOCATIONS /\ ProviderFailed(response)) =>
        /\ http_status = 200
        /\ requests = 1
        /\ SyntheticFor(SURF_LOCATIONS[location_id])

\* a 200 whose body is not JSON, answered with synthetic data for Pipeline
C4_Witness ==
    /\ op = "surf_data"
    /\ location_id = "pipeline"
    /\ response = Http(200, Body("unparseable", EmptyPoint))
    /\ requests = 1
    /\ surf_data.location_name = Str("Pipeline")

Fields ==
    {"location_name", "wave_height", "wave_period", "wave_direction", "wind_speed",
     "wind_direction", "temperature", "tide_height", "swell_height", "swell_period",
     "swell_direction", "timestamp"}

\* C5: every record the fetcher returns has all twelve fields non-null.
C5_AllFieldsPopulated ==
    Fetched => \A f \in Fields : surf_data[f] # None

\* C6: an identifier outside the registry gets a synthetic record for
\* Malibu, with no error response and no request to the provider.
C6_UnknownIdDefaultLocation ==
    (Fetched /\ location_id \notin DOMAIN SURF_LOCATIONS) =>
        /\ http_status = 200
        /\ requests = 0
        /\ response = NoResponse
        /\ surf_data.location_name = Str("Malibu")
        /\ SyntheticFor(SURF_LOCATIONS["malibu"])

C6_Witness ==
    /\ op = "surf_data"
    /\ location_id \in UnknownIds
    /\ surf_data.location_name = Str("Malibu")

\* C7: a failed text-generation call gives a report whose analysis is an
\* error message and whose surf_data is the input record; the answer is 200.
C7_NarrativeFailureIsContent ==
    (op = "analysis" /\ gpt \in GptFailures) =>
        /\ http_status = 200
        /\ report.analysis \in {Str("Error analyzing conditions: " \o g) : g \in GptFailures}
        /\ report.surf_data = surf_data

C7_Witness ==
    /\ op = "analysis"
    /\ gpt = "quota"
    /\ report.analysis = Str("Error analyzing conditions: quota")
    /\ surf_data # NoRecord

\* the entries of the rankings that belong to the i-th location
EntriesOf(i) ==
    {k \in 1..Len(rankings) : rankings[k].location_id = LocationKeys[i]}

\* C8: the rankings call does not fail; a location whose fetch or scoring
\* raised has no entry and every other location exactly one, holding the
\* record fetched for it and that record's score.
C8_FailingLocationSkipped ==
    op = "rankings" =>
        /\ http_status = 200
        /\ Len(rankings) <= Len(LocationKeys)
        /\ \A i \in 1..Len(LocationKeys) :
             /\ Cardinality(EntriesOf(i)) = IF calls[i].failed THEN 0 ELSE 1
             /\ \A k \in EntriesOf(i) :
                  /\ rankings[k].surf_data = calls[i].surf_data
                  /\ calculate_wave_quality(rankings[k].surf_data)
                       = Ok(rankings[k].quality_score)

\* two locations skipped, three ranked
C8_Witness ==
    /\ op = "rankings"
    /\ calls[2].failed
    /\ calls[4].failed
    /\ Len(rankings) = 3

NonNegativeFields ==
    {"wave_height", "wave_period", "wind_speed", "temperature", "swell_height",
     "swell_period"}

\* C9 as stated: every numeric field but tide_height is non-negative.
C9_NonNegative ==
    Fetched => \A f \in NonNegativeFields : IsNum(surf_data[f]) => surf_data[f].n >= 0

\* the metric a field of the status-200 record is read from, and its default
MetricOf(f) ==
    CASE f \in {"wave_height", "swell_height"} -> "waveHeight"
      [] f \in {"wave_period", "swell_period"} -> "wavePeriod"
      [] f = "wind_speed" -> "windSpeed"
      [] OTHER -> "airTemperature"
DefaultOf(f) ==
    CASE f \in {"wave_height", "swell_height"} -> 30
      [] f \in {"wave_period", "swell_period", "wind_speed"} -> 100
      [] OTHER -> 200

\* the "noaa" value the answer carries for a metric, when it carries one
Supplied(resp, m) == resp.body.json = "point" /\ resp.body.point[m].e = "noaa"

\* C9 amended: a synthetic record has these fields non-negative; in a
\* status-200 record each of them is the provider's noaa value unchanged,
\* whatever its sign, or a non-negative default.
C9_NonNegativeUnlessSupplied ==
    Fetched =>
        \A f \in NonNegativeFields :
            IF draw \in Draws
            THEN IsNum(surf_data[f]) /\ surf_data[f].n >= 0
            ELSE IF Supplied(response, MetricOf(f))
                 THEN surf_data[f] = response.body.point[MetricOf(f)].v
                 ELSE surf_data[f] = Num(DefaultOf(f)) /\ DefaultOf(f) >= 0

\* a negative air temperature passed through next to a defaulted wave height
C9_Witness ==
    /\ op = "surf_data"
    /\ draw = NoDraw
    /\ surf_data.temperature = Num(-10)
    /\ surf_data.wave_height = Num(30)
    /\ response.body.point["waveHeight"] = Absent

\* C10: swell_height equals wave_height and swell_period equals wave_period
\* in every record the fetcher returns.
C10_SwellMirrorsWave ==
    Fetched =>
        /\ surf_data.swell_height = surf_data.wave_height
        /\ surf_data.swell_period = surf_data.wave_period

\* a status-200 record with a supplied wave height and a defaulted period
C10_Witness ==
    /\ op = "surf_data"
    /\ draw = NoDraw
    /\ response.body.point["waveHeight"] = Noaa(Num(120))
    /\ surf_data.swell_height = Num(120)
    /\ surf_data.swell_period = Num(100)

====
